---- MODULE Spec2Model ----
(***************************************************************************)
(* A model of the maXTouch driver core in src/maxtouch.c:                  *)
(*   read_object_table   - walks the chip's object table (lines 57-136)    *)
(*   write_configuration - writes T7, T8, T46 and T100 (lines 138-218)     *)
(*   read_messages       - folds T5 messages into the digitizer state      *)
(*                         (lines 227-277)                                 *)
(* The chip behind the bus is the environment: what a read returns and     *)
(* whether a bus operation succeeds are chosen nondeterministically.       *)
(***************************************************************************)
EXTENDS Integers, Sequences, FiniteSets, TLC

VARIABLES
    pc,                            \* position in initialize() / read_messages()
    table,                         \* object table elements read successfully so far
    bus,                           \* bus operations issued by the current call
    diag,                          \* diagnostics printed by the current call
    faults,                        \* bus operations that have failed so far
    status,                        \* int status (last assigned I2C result)
    information_status,            \* result of the information block read
    num_objects,                   \* information.num_objects
    i,                             \* loop index of the running loop
    report_id,                     \* int report_id of read_object_table
    object_table_element_address,  \* uint16_t object_table_element_address
    address,                       \* the t*_address globals, by object type
    t5_max_message_size,
    t100_first_report_id,
    t100_second_report_id,
    t100_subsequent_report_ids,
    t100_num_reports,
    digitizer_report,              \* the digitizer state threaded through read_messages
    input_report,                  \* digitizer_report as passed to the current call
    message_count,                 \* message_count.count of the current call
    message,                       \* the last mxt_message read
    contact_id,                    \* index it used into digitizer_report.fingers, or NoIndex
    ids_indexed,                   \* indices it used into t100_subsequent_report_ids
    records,                       \* messages processed so far
    cpi,                           \* static uint16_t cpi
    xrange,                        \* cfg.xrange as last computed, 0 before
    round_trip                     \* SAMPLES_TO_CPI of xrange, 0 before

vars == <<pc, table, bus, diag, faults, status, information_status, num_objects, i,
          report_id, object_table_element_address, address, t5_max_message_size,
          t100_first_report_id, t100_second_report_id, t100_subsequent_report_ids,
          t100_num_reports, digitizer_report, input_report, message_count, message,
          contact_id, ids_indexed, records, cpi, xrange, round_trip>>

(***************************************************************************)
(* Program constants                                                       *)
(***************************************************************************)
MXT_DEFAULT_DPI == 600
NUM_FINGERS == 5

\* From maxtouch.h (the T100 event codes of the maXTouch protocol, the
\* register of the information block and the two record sizes).
MOVE == 1
UNSUP == 2
SUP == 3
DOWN == 4
UP == 5
DOWNSUP == 8
DOWNUP == 9
MXT_REG_INFORMATION_BLOCK == 0
SizeofInformationBlock == 7
SizeofObjectTableElement == 6

\* From maxtouch.h: the sensor height the X range is scaled by, in millimetres.
MXT_SENSOR_HEIGHT_MM == 40

OK == "OK"
ERR == "ERR"

(***************************************************************************)
(* Bounds of the model                                                     *)
(***************************************************************************)
MaxObjects == 2      \* information.num_objects of the tables of TableObjects
MaxRecords == 2      \* messages the chip delivers in one session
MaxFaults == 1       \* bus operations that fail in one session
MaxCpi == 2000       \* largest cpi the conversion macros are applied to

(***************************************************************************)
(* Fixed width arithmetic                                                  *)
(***************************************************************************)
U8(n) == n % 256
U16(n) == n % 65536

\* line 5: the numerator and the sums stay below 2^31 for every uint16_t cpi,
\* so int arithmetic does not wrap
DIVIDE_UNSIGNED_ROUND(numerator, denominator) ==
    (numerator + (denominator \div 2)) \div denominator

\* A conversion that takes the distance in tenths of a millimetre already.
CpiToSamplesUnscaled(c, dist_in_mm) ==
    DIVIDE_UNSIGNED_ROUND(c * dist_in_mm, 254)

\* line 6
CPI_TO_SAMPLES(c, dist_in_mm) ==
    DIVIDE_UNSIGNED_ROUND(c * dist_in_mm * 10, 254)

\* line 7
SAMPLES_TO_CPI(samples, dist_in_mm) ==
    DIVIDE_UNSIGNED_ROUND(samples * 254, dist_in_mm * 10)
Min(a, b) == IF a < b THEN a ELSE b

(***************************************************************************)
(* The environment's inputs                                                *)
(***************************************************************************)
RecognizedTypes == {2, 5, 6, 7, 8, 44, 46, 100}

Object(t, ms, ls, sz, inst, rpi) ==
    [type |-> t, position_ms_byte |-> ms, position_ls_byte |-> ls,
     size_minus_one |-> sz, instances_minus_one |-> inst,
     report_ids_per_instance |-> rpi]

\* Object table elements a chip may present to read_object_table: every
\* recognized type and one unrecognized type (37), each with a non-zero and
\* with a zero address field and with several report id allotments.
ObjectShapes ==
    { <<1, 2, 0, 1>>, <<0, 0, 1, 2>>, <<2, 1, 0, 7>>, <<0, 9, 0, 0>> }
TableObjects ==
    { Object(t, s[1], s[2], 10, s[3], s[4]) : t \in RecognizedTypes \cup {37},
                                              s \in ObjectShapes }

\* The object tables of the sessions that go on to read messages: a touch
\* object with fewer and with more report ids than NUM_FINGERS, with none,
\* no touch object, no message count object, no message processor object.
T5 == Object(5, 1, 8, 10, 0, 0)
T6 == Object(6, 0, 9, 0, 0, 1)
T44 == Object(44, 1, 2, 0, 0, 0)
T100(rpi) == Object(100, 2, 1, 0, 0, rpi)
SessionTables ==
    { <<T100(2), T44, T5>>, <<T6, T100(7), T5, T44>>, <<T44, T5>>,
      <<T100(0), T44>>, <<T100(2), T5>>, <<>> }

NoIndex == -1
FingerIndex == 0 .. (NUM_FINGERS - 1)
NoFinger == [confidence |-> FALSE, tip |-> FALSE, x |-> 0, y |-> 0]
NoMessage == [report_id |-> 0, data |-> <<0, 0, 0, 0, 0>>]

BusOp(what, op, addr, st) == [what |-> what, op |-> op, addr |-> addr, status |-> st]

\* The results a bus operation can have.
BusStatus == IF faults < MaxFaults THEN {OK, ERR} ELSE {OK}
Failed(st) == IF st = ERR THEN 1 ELSE 0

(***************************************************************************)
(* Initial state: the static initialisers of lines 25-44                   *)
(***************************************************************************)
InitDriver ==
    /\ pc = "start"
    /\ table = <<>>
    /\ bus = <<>>
    /\ diag = 0
    /\ faults = 0
    /\ status = OK
    /\ information_status = "none"
    /\ num_objects = 0
    /\ i = 0
    /\ report_id = 1
    /\ object_table_element_address = 0
    /\ address = [t \in RecognizedTypes |-> 0]
    /\ t5_max_message_size = 0
    /\ t100_first_report_id = 0
    /\ t100_second_report_id = 0
    /\ t100_subsequent_report_ids = [k \in FingerIndex |-> 0]
    /\ t100_num_reports = 0
    /\ digitizer_report = [f \in FingerIndex |-> NoFinger]
    /\ input_report = [f \in FingerIndex |-> NoFinger]
    /\ message_count = 0
    /\ message = NoMessage
    /\ contact_id = NoIndex
    /\ ids_indexed = {}
    /\ records = 0
    /\ xrange = 0
    /\ round_trip = 0

Init ==
    /\ InitDriver
    /\ cpi = MXT_DEFAULT_DPI

(***************************************************************************)
(* read_object_table                                                       *)
(***************************************************************************)
cpiVars == <<cpi, xrange, round_trip>>
decoderVars == <<digitizer_report, input_report, message_count, message,
                 contact_id, ids_indexed, records>>
resolvedVars == <<address, t5_max_message_size, t100_first_report_id,
                  t100_second_report_id, t100_subsequent_report_ids,
                  t100_num_reports>>

\* line 88: (position_ms_byte << 8) | position_ls_byte, as uint16_t
ObjectAddress(object) ==
    U16(object.position_ms_byte * 256 + object.position_ls_byte)

\* line 124: the ids an element consumes
ReportIdsOf(object) ==
    object.report_ids_per_instance * (object.instances_minus_one + 1)

\* A walk that advances the counter for the recognized types only.
NextReportIdRecognizedOnly(r, object) ==
    IF object.type \in RecognizedTypes THEN r + ReportIdsOf(object) ELSE r

\* line 124: report_id += ..., for every element read, whatever its type
NextReportId(r, object) == r + ReportIdsOf(object)

\* The loop of line 117 without its NUM_FINGERS bound.
NumReportsUnbounded(object) == object.report_ids_per_instance

\* line 117: the value the for loop leaves in t100_num_reports
NumReports(object) == Min(NUM_FINGERS, object.report_ids_per_instance)

\* lines 117-120: the entries the for loop writes, the others keep their value
SubsequentReportIds(old, r, n) ==
    [k \in FingerIndex |-> IF k < n THEN U16(r + 2 + k) ELSE old[k]]

\* lines 89-122: the switch on object.type
StoreAddress(addr, object) ==
    IF object.type \in RecognizedTypes
    THEN [addr EXCEPT ![object.type] = ObjectAddress(object)]
    ELSE addr

\* lines 64-78 and 132-135: the information block read
ReadInformationBlock(Counts) ==
    /\ pc = "start"
    /\ \E st \in BusStatus :
        /\ status' = st
        /\ information_status' = st
        /\ faults' = faults + Failed(st)
        /\ bus' = <<BusOp("information", "read", MXT_REG_INFORMATION_BLOCK, st)>>
        /\ IF st = OK
           THEN \E n \in Counts :
                  /\ num_objects' = n
                  /\ report_id' = 1
                  /\ object_table_element_address' = SizeofInformationBlock
                  /\ i' = 0
                  /\ diag' = 0
                  /\ pc' = IF 0 < n THEN "objects" ELSE "T7"
           ELSE /\ diag' = 1
                /\ pc' = "T7"
                /\ UNCHANGED <<num_objects, report_id, object_table_element_address, i>>
    /\ UNCHANGED <<table, resolvedVars, decoderVars, cpiVars>>

\* lines 79-130: one iteration of the loop, the element read succeeding
ReadObject(Objects) ==
    /\ pc = "objects"
    /\ i < num_objects
    /\ \E object \in Objects :
        /\ status' = OK
        /\ bus' = Append(bus, BusOp("object", "read", object_table_element_address, OK))
        /\ table' = Append(table, object)
        /\ address' = StoreAddress(address, object)
        /\ t5_max_message_size' =
               IF object.type = 5 THEN U16(object.size_minus_one - 1)
               ELSE t5_max_message_size
        /\ IF object.type = 100
           THEN /\ t100_first_report_id' = U16(report_id)
                /\ t100_second_report_id' = U16(report_id + 1)
                /\ t100_num_reports' = NumReports(object)
                /\ t100_subsequent_report_ids' =
                       SubsequentReportIds(t100_subsequent_report_ids, report_id,
                                           NumReports(object))
           ELSE UNCHANGED <<t100_first_report_id, t100_second_report_id,
                            t100_num_reports, t100_subsequent_report_ids>>
        /\ object_table_element_address' =
               U16(object_table_element_address + SizeofObjectTableElement)
        /\ report_id' = NextReportId(report_id, object)
    /\ i' = i + 1
    /\ pc' = IF i + 1 < num_objects THEN "objects" ELSE "T7"
    /\ UNCHANGED <<diag, faults, information_status, num_objects, decoderVars,
                   cpiVars>>

\* lines 83-85 and 126-129: one iteration of the loop, the element read failing
ReadObjectFails ==
    /\ pc = "objects"
    /\ i < num_objects
    /\ ERR \in BusStatus
    /\ status' = ERR
    /\ faults' = faults + 1
    /\ bus' = Append(bus, BusOp("object", "read", object_table_element_address, ERR))
    /\ diag' = diag + 1
    /\ i' = i + 1
    /\ pc' = IF i + 1 < num_objects THEN "objects" ELSE "T7"
    /\ UNCHANGED <<table, information_status, num_objects, report_id,
                   object_table_element_address, resolvedVars, decoderVars,
                   cpiVars>>

(***************************************************************************)
(* write_configuration                                                     *)
(***************************************************************************)
configFrame == <<table, information_status, num_objects, i, report_id,
                 object_table_element_address, resolvedVars, decoderVars>>

\* A capability test that takes every capability as resolved.
ResolvedAlways(type) == TRUE

\* lines 143, 157, 167, 178 and 229: if (t*_address)
Resolved(type) == address[type] # 0

\* lines 143-152, 157-162, 167-172: a capability written with its result dropped
WriteObject(type, what, log) ==
    IF Resolved(type)
    THEN \E st \in BusStatus :
           /\ bus' = Append(log, BusOp(what, "write", address[type], st))
           /\ faults' = faults + Failed(st)
    ELSE /\ bus' = log
         /\ faults' = faults

WriteT7 ==
    /\ pc = "T7"
    /\ WriteObject(7, "T7", <<>>)
    /\ diag' = 0
    /\ pc' = "T8"
    /\ UNCHANGED <<status, configFrame, cpiVars>>

WriteT8 ==
    /\ pc = "T8"
    /\ WriteObject(8, "T8", bus)
    /\ pc' = "T46"
    /\ UNCHANGED <<status, diag, configFrame, cpiVars>>

WriteT46 ==
    /\ pc = "T46"
    /\ WriteObject(46, "T46", bus)
    /\ pc' = "T100"
    /\ UNCHANGED <<status, diag, configFrame, cpiVars>>

\* A touch configuration that gives up when its record cannot be read.
T100OperationsReadChecked(rd, wr) ==
    IF rd = OK
    THEN <<BusOp("T100", "read", address[100], rd),
           BusOp("T100", "write", address[100], wr)>>
    ELSE <<BusOp("T100", "read", address[100], rd)>>

\* lines 181-212: the record is read and written back at the same address; the
\* result of the read is overwritten at line 211 without having been tested
T100Operations(rd, wr) ==
    <<BusOp("T100", "read", address[100], rd),
      BusOp("T100", "write", address[100], wr)>>

\* lines 178-217: the touch capability is read, patched and written back
WriteT100 ==
    /\ pc = "T100"
    /\ IF Resolved(100)
       THEN \E rd \in BusStatus, wr \in {OK, ERR} :
              /\ faults + Failed(rd) + Failed(wr) <= MaxFaults
              /\ bus' = bus \o T100Operations(rd, wr)
              /\ faults' = faults + Failed(rd) + Failed(wr)
              /\ status' = wr
              /\ diag' = diag + Failed(wr)
              /\ xrange' = U16(CPI_TO_SAMPLES(cpi, MXT_SENSOR_HEIGHT_MM))
       ELSE UNCHANGED <<bus, faults, status, diag, xrange>>
    /\ pc' = "written"
    /\ UNCHANGED <<configFrame, cpi, round_trip>>

NextTable ==
    \/ ReadInformationBlock(0 .. MaxObjects)
    \/ ReadObject(TableObjects)
    \/ ReadObjectFails
    \/ WriteT7
    \/ WriteT8
    \/ WriteT46
    \/ WriteT100

\* initialize() alone, over the wide set of object tables
SpecTable == Init /\ [][NextTable]_vars

(***************************************************************************)
(* The resolution conversion of lines 5-7 as a function of cpi             *)
(***************************************************************************)
InitCpi ==
    /\ InitDriver
    /\ cpi \in 1 .. MaxCpi

\* line 208: the range the chip is given for the sensor height
ConvertCpi ==
    /\ pc = "start"
    /\ xrange' = U16(CPI_TO_SAMPLES(cpi, MXT_SENSOR_HEIGHT_MM))
    /\ pc' = "samples"
    /\ UNCHANGED <<table, bus, diag, faults, status, information_status,
                   num_objects, i, report_id, object_table_element_address,
                   resolvedVars, decoderVars, cpi, round_trip>>

\* line 7 applied to that range
ConvertSamples ==
    /\ pc = "samples"
    /\ round_trip' = SAMPLES_TO_CPI(xrange, MXT_SENSOR_HEIGHT_MM)
    /\ pc' = "converted"
    /\ UNCHANGED <<table, bus, diag, faults, status, information_status,
                   num_objects, i, report_id, object_table_element_address,
                   resolvedVars, decoderVars, cpi, xrange>>

NextCpi ==
    \/ ConvertCpi
    \/ ConvertSamples

SpecCpi == InitCpi /\ [][NextCpi]_vars

(***************************************************************************)
(* read_messages                                                           *)
(***************************************************************************)
\* Messages the chip may deliver. data[0] carries the event in its low
\* nibble and other flags above it; data[1..4] are x and y, low byte first.
\* One payload for each event the code tells apart, each with a position of
\* its own: DOWN (with flags above the nibble) at (100, 200), UP at
\* (300, 519), SUP at (259, 3), DOWNSUP at (8, 264), UNSUP at (514, 2),
\* DOWNUP at (9, 9) and MOVE at (257, 257).
MessageIds == {1, 3, 4, 9}
MessageData ==
    { <<148, 100, 0, 200, 0>>, <<21, 44, 1, 7, 2>>, <<SUP, 3, 1, 3, 0>>,
      <<DOWNSUP, 8, 0, 8, 1>>, <<UNSUP, 2, 2, 2, 0>>, <<DOWNUP, 9, 0, 9, 0>>,
      <<145, 1, 1, 1, 1>> }
Messages ==
    { [report_id |-> id, data |-> d] : id \in MessageIds, d \in MessageData }

\* What a read outside t100_subsequent_report_ids may return (the array is
\* indexed with t100_num_reports - 1 and with t100_num_reports).
OutOfBoundsValues == {0, 9}

\* line 250: message.data[0] & 0xf
EventOf(msg) == msg.data[1] % 16
\* line 251: message.data[1] | (message.data[2] << 8), as uint16_t
XOf(msg) == U16(msg.data[2] + 256 * msg.data[3])
\* A Y coordinate read with its bytes in the other order.
YOfHighByteFirst(msg) == U16(256 * msg.data[4] + msg.data[5])
\* line 252: message.data[3] | (message.data[4] << 8), as uint16_t
YOf(msg) == U16(msg.data[4] + 256 * msg.data[5])

\* A tip switch that an unsuppressed or a down-up event leaves alone.
TipAfterUpOnly(tip, event) ==
    IF event = DOWN THEN TRUE
    ELSE IF event = UP THEN FALSE
    ELSE tip

\* lines 254-261: the tip switch
TipAfter(tip, event) ==
    IF event = DOWN THEN TRUE
    ELSE IF event = UP \/ event = UNSUP \/ event = DOWNUP THEN FALSE
    ELSE tip

\* A confidence that forgets the DOWNSUP event.
ConfidenceAfterSupOnly(event) == ~(event = SUP)

\* line 262
ConfidenceAfter(event) == ~(event = SUP \/ event = DOWNSUP)

\* A decoder that stores the position of every event.
StoresPositionAlways(event) == TRUE

\* lines 263-267: the position is stored unless the event is UP
StoresPosition(event) == event # UP

\* lines 250-267: the finger after a message addressed to it
FingerAfter(finger, msg) ==
    [confidence |-> ConfidenceAfter(EventOf(msg)),
     tip |-> TipAfter(finger.tip, EventOf(msg)),
     x |-> IF StoresPosition(EventOf(msg)) THEN XOf(msg) ELSE finger.x,
     y |-> IF StoresPosition(EventOf(msg)) THEN YOf(msg) ELSE finger.y]

\* A report whose confidence is one flag that every finger shares.
FingersAfterSharedConfidence(report, f, msg) ==
    [g \in FingerIndex |->
        IF g = f THEN FingerAfter(report[g], msg)
        ELSE [report[g] EXCEPT !.confidence = ConfidenceAfter(EventOf(msg))]]

\* lines 256-266: every assignment is to digitizer_report->fingers[contact_id]
FingersAfter(report, f, msg) ==
    [report EXCEPT ![f] = FingerAfter(report[f], msg)]

\* line 249: const uint8_t contact_id = message.report_id - t100_subsequent_report_ids[0]
ContactId(msg) == U8(msg.report_id - t100_subsequent_report_ids[0])

\* line 247: the values t100_subsequent_report_ids[t100_num_reports - 1] can
\* have; with t100_num_reports = 0 the index is -1, outside the array.
LastReportIdValues ==
    IF t100_num_reports - 1 \in FingerIndex
    THEN {t100_subsequent_report_ids[t100_num_reports - 1]}
    ELSE OutOfBoundsValues

\* A message loop that runs once too often.
MoreMessagesInclusive(n, count) == n <= count

\* line 236: the loop runs while i < message_count.count
MoreMessages(n, count) == n < count

\* lines 229-236: the message count read, and the return when there is nothing to do
ReadMessageCount ==
    /\ pc \in {"written", "returned"}
    /\ input_report' = digitizer_report
    /\ diag' = 0
    /\ IF Resolved(44)
       THEN \E st \in BusStatus :
              /\ bus' = <<BusOp("count", "read", address[44], st)>>
              /\ status' = st
              /\ faults' = faults + Failed(st)
              /\ IF st = OK
                 THEN \E count \in 0 .. (MaxRecords - records) :
                        /\ message_count' = count
                        /\ i' = 0
                        /\ pc' = IF MoreMessages(0, count) THEN "messages" ELSE "returned"
                 ELSE /\ pc' = "returned"
                      /\ UNCHANGED <<message_count, i>>
       ELSE /\ bus' = <<>>
            /\ pc' = "returned"
            /\ UNCHANGED <<status, faults, message_count, i>>
    /\ UNCHANGED <<table, information_status, num_objects, report_id,
                   object_table_element_address, resolvedVars, digitizer_report,
                   message, contact_id, ids_indexed, records, cpiVars>>

\* lines 238-272: one iteration of the message loop
ReadMessage ==
    /\ pc = "messages"
    /\ MoreMessages(i, message_count)
    /\ \E st \in BusStatus, msg \in Messages :
        /\ bus' = Append(bus, BusOp("message", "read", address[5], st))
        /\ status' = st
        /\ faults' = faults + Failed(st)
        /\ message' = msg
        /\ IF msg.report_id = t100_first_report_id
           THEN \* lines 242-245
                /\ contact_id' = NoIndex
                /\ ids_indexed' = {}
                /\ UNCHANGED <<digitizer_report, diag>>
           ELSE IF msg.report_id >= t100_subsequent_report_ids[0]
           THEN \E last \in LastReportIdValues :
                  IF msg.report_id <= last
                  THEN \* lines 249-267; a write beyond fingers[NUM_FINGERS - 1]
                       \* lands outside digitizer_report
                       /\ contact_id' = ContactId(msg)
                       /\ ids_indexed' = {0, t100_num_reports - 1}
                       /\ digitizer_report' =
                              IF ContactId(msg) \in FingerIndex
                              THEN FingersAfter(digitizer_report, ContactId(msg), msg)
                              ELSE digitizer_report
                       /\ diag' = diag
                  ELSE \* lines 269-272
                       /\ contact_id' = NoIndex
                       /\ ids_indexed' = {0, t100_num_reports - 1, t100_num_reports}
                       /\ diag' = diag + 1
                       /\ UNCHANGED digitizer_report
           ELSE \* lines 269-272, the second comparison of line 247 not evaluated
                /\ contact_id' = NoIndex
                /\ ids_indexed' = {0, t100_num_reports - 1, t100_num_reports}
                /\ diag' = diag + 1
                /\ UNCHANGED digitizer_report
    /\ records' = records + 1
    /\ i' = i + 1
    /\ pc' = IF MoreMessages(i + 1, message_count) THEN "messages" ELSE "returned"
    /\ UNCHANGED <<table, information_status, num_objects, report_id,
                   object_table_element_address, resolvedVars, input_report,
                   message_count, cpiVars>>

\* The chip of a session holds one of SessionTables: the element at the
\* address read is the one that follows those read so far.
SessionCounts == { Len(t) : t \in SessionTables }
SessionObjects ==
    { t[Len(table) + 1] :
          t \in { u \in SessionTables : /\ Len(u) = num_objects
                                       /\ Len(table) < Len(u)
                                       /\ SubSeq(u, 1, Len(table)) = table } }

Next ==
    \/ ReadInformationBlock(SessionCounts)
    \/ ReadObject(SessionObjects)
    \/ ReadObjectFails
    \/ WriteT7
    \/ WriteT8
    \/ WriteT46
    \/ WriteT100
    \/ ReadMessageCount
    \/ ReadMessage

\* initialize() followed by any number of read_messages() calls
Spec == Init /\ [][Next]_vars

(***************************************************************************)
(* Properties                                                              *)
(***************************************************************************)
InitialDigitizer == [f \in FingerIndex |-> NoFinger]
EventNibble(msg) == msg.data[1] % 16
CountReads == { k \in 1 .. Len(bus) : bus[k].what = "count" }
MessageReads == { k \in 1 .. Len(bus) : bus[k].what = "message" }

\* C1: every index read_messages uses into digitizer_report.fingers lies in
\* 0 .. NUM_FINGERS - 1, whatever the object table and the report ids were.
C1_FingerIndexInBounds == contact_id = NoIndex \/ contact_id \in FingerIndex

\* The ids the first n elements of t are allotted.
RECURSIVE AllottedIds(_, _)
AllottedIds(t, n) ==
    IF n = 0 THEN 0
    ELSE AllottedIds(t, n - 1)
         + t[n].report_ids_per_instance * (t[n].instances_minus_one + 1)
TouchElements == { k \in 1 .. Len(table) : table[k].type = 100 }
LastTouchElement == CHOOSE k \in TouchElements : \A j \in TouchElements : j <= k
WalkComplete ==
    /\ information_status = OK
    /\ pc \notin {"start", "objects"}
    /\ Len(table) = num_objects

\* C2: once the information block and all num_objects elements have been
\* read, report_id is 1 plus the sum of report_ids_per_instance *
\* (instances_minus_one + 1) over all the elements, recognized or not, and
\* the touch object's first id is 1 plus that sum over the elements before it.
C2_CounterIsOnePlusAllotments ==
    WalkComplete =>
        /\ report_id = 1 + AllottedIds(table, Len(table))
        /\ TouchElements # {} =>
               t100_first_report_id = 1 + AllottedIds(table, LastTouchElement - 1)
C2_Witness ==
    /\ WalkComplete
    /\ Len(table) = 2
    /\ table[1].type = 37
    /\ table[1].report_ids_per_instance = 7
    /\ table[2].type = 100
    /\ t100_first_report_id = 8
    /\ report_id > 8

\* C3: the step that reads a touch element with the counter at r sets the
\* first id to r, the second to r + 1, t100_num_reports to
\* k = min(NUM_FINGERS, report_ids_per_instance) and the first k per-finger
\* ids to r + 2 .. r + 1 + k in order, and writes no other per-finger id.
C3_TouchElementIds ==
    [][ (Len(table') = Len(table) + 1 /\ table'[Len(table')].type = 100) =>
          LET rpi == table'[Len(table')].report_ids_per_instance
              k == IF rpi < NUM_FINGERS THEN rpi ELSE NUM_FINGERS
          IN /\ t100_first_report_id' = report_id
             /\ t100_second_report_id' = report_id + 1
             /\ t100_num_reports' = k
             /\ \A n \in FingerIndex :
                    t100_subsequent_report_ids'[n] =
                        IF n < k THEN report_id + 2 + n
                        ELSE t100_subsequent_report_ids[n] ]_vars
C3_Witness ==
    /\ table # <<>>
    /\ table[Len(table)].type = 100
    /\ table[Len(table)].report_ids_per_instance = 7
    /\ t100_first_report_id > 1
    /\ t100_num_reports = 5
    /\ t100_subsequent_report_ids[0] = t100_first_report_id + 2
    /\ t100_subsequent_report_ids[4] = t100_first_report_id + 6

\* C4: a call of read_messages that reads the message count reads it once,
\* first, and then issues exactly message_count.count message reads (none
\* when the count read failed), whatever the messages and their read results.
C4_MessageReadsEqualCount ==
    /\ pc = "messages" =>
           /\ Cardinality(CountReads) = 1
           /\ bus[1].what = "count"
           /\ Cardinality(MessageReads) = i
           /\ i < message_count
    /\ (pc = "returned" /\ address[44] # 0) =>
           /\ Cardinality(CountReads) = 1
           /\ bus[1].what = "count"
           /\ Len(bus) = 1 + Cardinality(MessageReads)
           /\ Cardinality(MessageReads) =
                  IF bus[1].status = OK THEN message_count ELSE 0
C4_Witness ==
    /\ pc = "returned"
    /\ message_count = 2
    /\ Cardinality(MessageReads) = 2
    /\ bus[2].status = ERR
    /\ bus[3].status = OK

\* C5: an UP message for finger f that follows a DOWN message for f at
\* (x, y) leaves f with tip = false, confidence = true and position (x, y),
\* whatever position the UP message carries.
C5_DownThenUpKeepsPosition ==
    [][ \A f \in FingerIndex :
          ( /\ records' = records + 1
            /\ contact_id = f
            /\ contact_id' = f
            /\ EventNibble(message) = DOWN
            /\ EventNibble(message') = UP )
          => digitizer_report'[f] =
                 [confidence |-> TRUE, tip |-> FALSE,
                  x |-> message.data[2] + 256 * message.data[3],
                  y |-> message.data[4] + 256 * message.data[5]] ]_vars
\* Only a DOWN message carries (100, 200); the UP message carries (300, 519).
C5_Witness ==
    /\ contact_id \in FingerIndex
    /\ EventNibble(message) = UP
    /\ message.data[2] + 256 * message.data[3] = 300
    /\ digitizer_report[contact_id] =
           [confidence |-> TRUE, tip |-> FALSE, x |-> 100, y |-> 200]

\* C6: after a per-finger message for finger f, f's confidence is false if
\* the event is SUP or DOWNSUP and true otherwise, whatever it was before.
C6_ConfidenceRecomputed ==
    contact_id \in FingerIndex =>
        digitizer_report[contact_id].confidence
            = ~(EventNibble(message) \in {SUP, DOWNSUP})
\* Only a SUP message carries (259, 3): the finger was suppressed, and the UP
\* message that followed made it confident again.
C6_Witness ==
    /\ contact_id \in FingerIndex
    /\ EventNibble(message) = UP
    /\ digitizer_report[contact_id].x = 259
    /\ digitizer_report[contact_id].y = 3
    /\ digitizer_report[contact_id].confidence = TRUE

\* The per-finger id range resolved from the table (none without a per-finger id).
InPerFingerRange(id) ==
    /\ t100_num_reports > 0
    /\ id >= t100_subsequent_report_ids[0]
    /\ id <= t100_subsequent_report_ids[t100_num_reports - 1]

\* C7: a message whose report id is neither the touch object's first id nor
\* in the per-finger id range resolved from the table changes no finger and
\* produces exactly one diagnostic.
C7_UnrecognizedIdIsInert ==
    [][ ( /\ records' = records + 1
          /\ message'.report_id # t100_first_report_id
          /\ ~InPerFingerRange(message'.report_id) )
        => /\ digitizer_report' = digitizer_report
           /\ diag' = diag + 1 ]_vars

\* C8: a call of read_messages that processes no message (the message count
\* object is absent, the count read fails, or the count is 0) returns the
\* digitizer state it was given, and any number of such calls leave the
\* original state in place.
C8_NoMessagesNoChange ==
    /\ ( /\ pc = "returned"
         /\ IF address[44] = 0 THEN TRUE
            ELSE bus[1].status = ERR \/ message_count = 0 )
       => digitizer_report = input_report
    /\ records = 0 => digitizer_report = InitialDigitizer
C8_Witness ==
    /\ pc = "returned"
    /\ address[44] # 0
    /\ bus = <<BusOp("count", "read", address[44], OK)>>
    /\ message_count = 0
    /\ records > 0
    /\ digitizer_report # InitialDigitizer
    /\ digitizer_report = input_report

\* C9: when the information block read fails no object table element is
\* read, every capability address stays 0, write_configuration issues no bus
\* operation and read_messages issues no bus operation.
C9_HeaderFailureResolvesNothing ==
    information_status = ERR =>
        /\ table = <<>>
        /\ \A t \in RecognizedTypes : address[t] = 0
        /\ bus = IF pc = "T7"
                 THEN <<BusOp("information", "read", MXT_REG_INFORMATION_BLOCK, ERR)>>
                 ELSE <<>>
C9_Witness ==
    /\ information_status = ERR
    /\ pc = "returned"
    /\ bus = <<>>

ConfiguredTypes == {7, 8, 46, 100}
WrittenAs(t) ==
    CASE t = 7 -> "T7" [] t = 8 -> "T8" [] t = 46 -> "T46" [] t = 100 -> "T100"
ElementsOf(t) == { k \in 1 .. Len(table) : table[k].type = t }
LastElementOf(t) == CHOOSE k \in ElementsOf(t) : \A j \in ElementsOf(t) : j <= k
WritesOf(t) ==
    { k \in 1 .. Len(bus) : bus[k].op = "write" /\ bus[k].what = WrittenAs(t) }

\* C10: write_configuration issues exactly one write for each of T7, T8, T46
\* and T100 that has an element in the table read, at the address that
\* element decodes to, whatever that address is, and none for the others.
C10_OneWritePerElement ==
    pc = "written" =>
        \A t \in ConfiguredTypes :
            IF ElementsOf(t) = {} THEN WritesOf(t) = {}
            ELSE /\ Cardinality(WritesOf(t)) = 1
                 /\ \A k \in WritesOf(t) :
                        bus[k].addr =
                            table[LastElementOf(t)].position_ms_byte * 256
                            + table[LastElementOf(t)].position_ls_byte

\* The writes of write_configuration, and those of them that failed.
ConfigurationWrites == { k \in 1 .. Len(bus) : bus[k].op = "write" }
FailedWrites == { k \in ConfigurationWrites : bus[k].status = ERR }

\* C11: when write_configuration has returned, every failed write of a
\* resolved capability has produced a diagnostic, no capability was written
\* twice, and every resolved capability was written whatever failed before it.
C11_FailedWriteIsReported ==
    pc = "written" =>
        /\ diag = Cardinality(FailedWrites)
        /\ \A t \in ConfiguredTypes :
               Cardinality(WritesOf(t)) = IF address[t] # 0 THEN 1 ELSE 0

\* C12: for the 40 mm distance and every cpi of 1 .. MaxCpi, converting cpi
\* to samples and the samples back to cpi gives a value within 1 of cpi.
C12_RoundTripWithinOne ==
    pc = "converted" =>
        /\ xrange = (cpi * 400 + 127) \div 254
        /\ round_trip - cpi \in -1 .. 1

C12_Witness ==
    /\ pc = "converted"
    /\ cpi = MXT_DEFAULT_DPI
    /\ xrange = 945
    /\ round_trip = MXT_DEFAULT_DPI

\* The element reads of read_object_table, in the order they were issued.
ObjectReads == SelectSeq(bus, LAMBDA op : op.what = "object")

\* C13: in read_object_table the k-th iteration of the loop (counted from 0)
\* reads at the size of the information block plus k element sizes, so every
\* iteration reads at a larger address than the one before it, also when an
\* earlier element read failed.
C13_ReadsAtRisingAddresses ==
    pc \in {"objects", "T7"} =>
        \A k \in 1 .. Len(ObjectReads) :
            ObjectReads[k].addr =
                SizeofInformationBlock + (k - 1) * SizeofObjectTableElement

\* C14: no step of read_object_table sets the address of a recognized
\* capability back to absent once it is resolved, whatever table is read.
C14_AddressStaysResolved ==
    [][\A t \in RecognizedTypes : address[t] # 0 => address'[t] # 0]_vars

\* A step of read_messages that processed a record of one of the fingers.
FingerRecord == records' = records + 1 /\ contact_id' \in FingerIndex

\* C15: after a record for finger f, the tip of f is true if the event is
\* DOWN, false if it is UP, UNSUP or DOWNUP, and as it was before for every
\* other event.
C15_TipFollowsEvent ==
    [][FingerRecord =>
         LET f == contact_id'
             event == EventNibble(message')
         IN  digitizer_report'[f].tip =
                 IF event = DOWN THEN TRUE
                 ELSE IF event \in {UP, UNSUP, DOWNUP} THEN FALSE
                 ELSE digitizer_report[f].tip]_vars

\* A finger that went down and then took a SUP record: its tip is still set.
C15_Witness ==
    /\ contact_id \in FingerIndex
    /\ EventNibble(message) = SUP
    /\ digitizer_report[contact_id].tip

\* C16: after a record for finger f with any event other than UP, the
\* position of f is the one of the payload, x = byte 1 + 256 * byte 2 and
\* y = byte 3 + 256 * byte 4 (byte 0 carries the event); after an UP record
\* the position of f is as it was before.
C16_PositionFollowsPayload ==
    [][FingerRecord =>
         LET f == contact_id'
             data == message'.data
         IN  IF EventNibble(message') # UP
             THEN /\ digitizer_report'[f].x = data[2] + 256 * data[3]
                  /\ digitizer_report'[f].y = data[4] + 256 * data[5]
             ELSE /\ digitizer_report'[f].x = digitizer_report[f].x
                  /\ digitizer_report'[f].y = digitizer_report[f].y]_vars

\* A finger placed by a SUP record at the position of that record.
C16_Witness ==
    /\ contact_id \in FingerIndex
    /\ EventNibble(message) = SUP
    /\ message.data[2] + 256 * message.data[3] = 259
    /\ digitizer_report[contact_id].x = 259
    /\ digitizer_report[contact_id].y = 3

\* C17: when the touch capability is resolved, the log of write_configuration
\* ends with one read of its record and then one write at the same address,
\* whether or not the read succeeded; there is no other T100 operation, and
\* every operation before the two is a write of T7, T8 or T46.
C17_ReadThenWriteOnce ==
    pc = "written" /\ address[100] # 0 =>
        LET n == Len(bus)
        IN  /\ n >= 2
            /\ bus[n - 1].what = "T100" /\ bus[n - 1].op = "read"
            /\ bus[n].what = "T100" /\ bus[n].op = "write"
            /\ bus[n - 1].addr = address[100]
            /\ bus[n].addr = address[100]
            /\ \A k \in 1 .. (n - 2) :
                   bus[k].what \in {"T7", "T8", "T46"} /\ bus[k].op = "write"

\* The touch record could not be read and was written all the same, after
\* the power configuration.
C17_Witness ==
    /\ pc = "written"
    /\ address[100] # 0
    /\ Len(bus) = 3
    /\ bus[1].what = "T7"
    /\ bus[2] = BusOp("T100", "read", address[100], ERR)
    /\ bus[3] = BusOp("T100", "write", address[100], OK)

\* C18: every index read_messages uses into t100_subsequent_report_ids lies
\* in 0 .. NUM_FINGERS - 1, on the range check and on the diagnostic path.
C18_ReportIdIndexInBounds == ids_indexed \subseteq FingerIndex

\* C19: read_messages reads messages only at a resolved message processor
\* address: with T5 absent no message read is issued.
C19_MessageReadsAtResolvedT5 ==
    \A k \in MessageReads : address[5] # 0 /\ bus[k].addr = address[5]

\* C20: a record for finger f changes no field of any other finger.
C20_OtherFingersUnchanged ==
    [][FingerRecord =>
         \A g \in FingerIndex \ {contact_id'} :
             digitizer_report'[g] = digitizer_report[g]]_vars

\* Finger 0 is as its DOWN record left it, after a record for finger 1 that
\* set the confidence of finger 1 the other way.
C20_Witness ==
    /\ contact_id = 1
    /\ digitizer_report[1] # NoFinger
    /\ ~digitizer_report[1].confidence
    /\ digitizer_report[0] = [confidence |-> TRUE, tip |-> TRUE, x |-> 100, y |-> 200]

====
